---- MODULE Spec2Model ----
(***************************************************************************)
(* Model of translate_epub.py: the EPUB translation orchestrator (main,    *)
(* translate_html_file), the translation client (translate_text), the API  *)
(* key rotation (get_next_api_key_and_setup) and the pre-translation       *)
(* filter (is_meaningful_text).                                            *)
(*                                                                         *)
(* A text is a sequence of characters; a character is a one-token string  *)
(* standing for its class: "a" "b" Latin letters, "zh" a CJK ideograph,    *)
(* "ya" a Cyrillic letter, "1" a digit, "-" "=" "." symbols of the rule    *)
(* set, "!" other punctuation, " " whitespace.                             *)
(***************************************************************************)
EXTENDS Integers, Sequences, FiniteSets, TLC

\* ------------------------------------------------------------------ bounds
MaxRuns == 2
MaxKeys == 2
MaxCalls == 2
MaxTextLen == 7
MaxSegLen == 3

\* ------------------------------------------------------- program constants
max_retries_per_key == 2
initial_wait_time_on_error == 2
wait_time_on_all_keys_exhausted == 60

\* --------------------------------------------------------------- characters
Latin == {"a", "b"}
CJK == {"zh"}
Cyrillic == {"ya"}
Digits == {"1"}
RuleSymbols == {"-", "=", "."}
Whitespace == {" "}

\* str.isalnum of one character
isalnum(c) == c \in Latin \cup CJK \cup Cyrillic \cup Digits

RECURSIVE LStrip(_)
LStrip(t) == IF t # <<>> /\ Head(t) \in Whitespace THEN LStrip(Tail(t)) ELSE t

RECURSIVE RStrip(_)
RStrip(t) ==
    IF t # <<>> /\ t[Len(t)] \in Whitespace THEN RStrip(SubSeq(t, 1, Len(t) - 1)) ELSE t

\* str.strip()
strip(t) == RStrip(LStrip(t))

\* re.search(r'[\u4e00-\u9fffA-Za-z]', text)
HasLetter(t) == \E i \in 1..Len(t) : t[i] \in Latin \cup CJK

\* sum(c.isalnum() for c in text)
RECURSIVE CountAlnum(_)
CountAlnum(t) ==
    IF t = <<>> THEN 0 ELSE (IF isalnum(Head(t)) THEN 1 ELSE 0) + CountAlnum(Tail(t))

\* re.fullmatch(r'([-\*=/_#\.])+\s*[A-Za-z]?\s*([-\*=/_#\.])+', s)
MatchSymbolsAroundLetter(s) ==
    \E p \in 1..Len(s) : \E q \in (p + 1)..Len(s) :
        /\ \A i \in 1..p : s[i] \in RuleSymbols
        /\ \A i \in q..Len(s) : s[i] \in RuleSymbols
        /\ \A i \in (p + 1)..(q - 1) : s[i] \in Whitespace \cup Latin
        /\ Cardinality({i \in (p + 1)..(q - 1) : s[i] \in Latin}) <= 1

\* re.fullmatch(r'([-\*=/_#\.])\1+', s)
MatchRepeatedSymbol(s) ==
    /\ Len(s) >= 2
    /\ s[1] \in RuleSymbols
    /\ \A i \in 2..Len(s) : s[i] = s[1]

\* re.fullmatch(r'\d[\d\s\.]*', s)
MatchDigitRun(s) ==
    /\ Len(s) >= 1
    /\ s[1] \in Digits
    /\ \A i \in 2..Len(s) : s[i] \in Digits \cup Whitespace \cup {"."}

\* alphanum_chars / total_chars < 0.15  (0.15 = 3/20)
LowAlnumRatio(t) == Len(t) > 0 /\ CountAlnum(t) * 20 < 3 * Len(t)

is_meaningful_text(text) ==
    IF strip(text) = <<>> THEN FALSE
    ELSE IF HasLetter(text)
         THEN IF LowAlnumRatio(text)
              THEN (IF MatchSymbolsAroundLetter(strip(text)) THEN FALSE ELSE TRUE)
              ELSE TRUE
         ELSE IF MatchRepeatedSymbol(strip(text)) \/ MatchDigitRun(strip(text))
              THEN FALSE
              ELSE FALSE

\* ------------------------------------------------------------ key rotation
\* A configuration is an index into _api_keys; 0 stands for None.
NoRotation ==
    [invoked |-> FALSE, ok |-> FALSE, model |-> 0, pos |-> 1, tried |-> <<>>, n |-> 0]

\* Sweep with the loop one attempt short
RECURSIVE Sweep_OneShort(_, _, _, _, _, _)
Sweep_OneShort(k, n, pos, model, outs, tried) ==
    IF k > n - 1
    THEN [invoked |-> TRUE, ok |-> FALSE, model |-> model, pos |-> pos, tried |-> tried,
          n |-> n]
    ELSE IF outs[k]
         THEN [invoked |-> TRUE, ok |-> TRUE, model |-> pos, pos |-> (pos % n) + 1,
               tried |-> Append(tried, pos), n |-> n]
         ELSE Sweep_OneShort(k + 1, n, (pos % n) + 1, model, outs, Append(tried, pos))

\* the for loop of get_next_api_key_and_setup: attempt k takes next(iterator),
\* outs[k] is whether setup_gemini_api succeeds for it; tried lists the keys
\* setup_gemini_api was called with, n is len(_api_keys)
RECURSIVE Sweep(_, _, _, _, _, _)
Sweep(k, n, pos, model, outs, tried) ==
    IF k > n
    THEN [invoked |-> TRUE, ok |-> FALSE, model |-> model, pos |-> pos, tried |-> tried,
          n |-> n]
    ELSE IF outs[k]
         THEN [invoked |-> TRUE, ok |-> TRUE, model |-> pos, pos |-> (pos % n) + 1,
               tried |-> Append(tried, pos), n |-> n]
         ELSE Sweep(k + 1, n, (pos % n) + 1, model, outs, Append(tried, pos))

\* The outcomes of the setup_gemini_api calls of one sweep: outs[k] for the k-th
\* call.  The sweep stops at the first success, so the outcomes are told apart
\* by the number j of failures before it (j = n: every call fails).
SetupOutcomes(n) == {[k \in 1..n |-> k > j] : j \in 0..n}

\* get_next_api_key_and_setup with a fresh itertools.cycle at every call
get_next_api_key_and_setup_Restart(n, pos, model, outs) ==
    IF n = 0
    THEN [invoked |-> TRUE, ok |-> FALSE, model |-> model, pos |-> pos, tried |-> <<>>,
          n |-> n]
    ELSE Sweep(1, n, 1, model, outs, <<>>)

get_next_api_key_and_setup(n, pos, model, outs) ==
    IF n = 0
    THEN [invoked |-> TRUE, ok |-> FALSE, model |-> model, pos |-> pos, tried |-> <<>>,
          n |-> n]
    ELSE Sweep(1, n, pos, model, outs, <<>>)

\* ------------------------------------------------------------------- paths
\* A path is a sequence of components.  temp_dir is absolute; the files of the
\* book are named by their path relative to temp_dir.
temp_dir == <<"/", "tmp_ws">>

P1 == <<"d1", "c.html">>
P2 == <<"d2", "c.html">>
P3 == <<"d1", "e.html">>

\* os.path.join(root, file) for a file found under temp_dir
AbsPath(f) == temp_dir \o f

\* os.path.dirname
dirname(p) == SubSeq(p, 1, Len(p) - 1)

\* os.path.commonpath of two paths: their longest common prefix
commonpath(p, q) ==
    LET ks == {k \in 0..Len(p) : k <= Len(q) /\ SubSeq(p, 1, k) = SubSeq(q, 1, k)}
        m == CHOOSE k \in ks : \A j \in ks : j <= k
    IN SubSeq(p, 1, m)

\* os.path.relpath(p, start), for start a prefix of p (the only use made of it)
relpath(p, start) == SubSeq(p, Len(start) + 1, Len(p))

\* line 209: the key of a file in translation_cache
file_relative_path(file_path) ==
    relpath(file_path, commonpath(file_path, dirname(file_path)))

\* line 448: the key main looks a file up by in translation_status
html_file_rel_path(html_file_abs_path) == relpath(html_file_abs_path, temp_dir)

\* line 233, 262, 265, 270: the key translate_html_file records a status under
StatusKey(file_path) == file_path

\* ------------------------------------------------------------------- texts
tA == <<"a">>
tSpA == <<" ", "a">>
tB == <<"b">>
tNum == <<"1">>
tWs == <<" ">>
tZh == <<"zh">>

\* hashlib.sha256(text).hexdigest(): the digest is represented by its
\* pre-image (distinct texts have distinct digests)
sha256(t) == <<"sha256", t>>

\* dict helpers
Get(d, k, default) == IF k \in DOMAIN d THEN d[k] ELSE default
Put(d, k, v) == [x \in (DOMAIN d) \cup {k} |-> IF x = k THEN v ELSE d[x]]
EmptyDict == <<>>
NoFile == [exists |-> FALSE, data |-> EmptyDict]
Saved(d) == [exists |-> TRUE, data |-> d]

Perms(S) == {s \in [1..Cardinality(S) -> S] : \A i, j \in 1..Cardinality(S) : s[i] = s[j] => i = j}

\* ------------------------------------------------------------------- books
\* The EPUB: its HTML files (by path relative to the workspace) and, for each,
\* the text nodes that find_all(string=True) yields under content tags.
Books ==
    { (P1 :> <<tA, tSpA>>) @@ (P3 :> <<tNum>>),
      (P1 :> <<tA, tB>>) @@ (P3 :> <<tWs, tNum>>),
      (P1 :> <<tA>>) @@ (P2 :> <<tA, tNum>>) }

\* what response.text can be when the call returns a text
RespTexts == {tZh, tWs}

\* outcomes of _current_model.generate_content(prompt)
Responses ==
    {[kind |-> "text", text |-> t] : t \in RespTexts}
        \cup {[kind |-> k, text |-> <<>>] : k \in {"empty", "quota", "error"}}

\* ------------------------------------------------------- translate_text
\* The result of handling one remote call: done = translate_text returns
\* (text, ok); otherwise the loop goes on with attempt.  rot is the call of
\* get_next_api_key_and_setup made while handling it, slept the time.sleep.
Outcome(done, ok, text, attempt, rot, slept) ==
    [done |-> done, ok |-> ok, text |-> text, attempt |-> attempt, rot |-> rot,
     slept |-> slept]

\* lines 143-145, 163-165: exponential backoff
Backoff(attempt) == initial_wait_time_on_error * (2 ^ attempt)

\* lines 135-139: a response with a text
OnText(fr, resp, outs) ==
    Outcome(TRUE, TRUE, strip(resp.text), fr.attempt, NoRotation, 0)

\* lines 140-148: no text in the response
OnEmpty(fr, resp, outs) ==
    IF fr.attempt < max_retries_per_key - 1
    THEN Outcome(FALSE, FALSE, <<>>, fr.attempt + 1, NoRotation, Backoff(fr.attempt))
    ELSE Outcome(FALSE, FALSE, <<>>, 0, NoRotation, 0)

\* OnQuota handled like a general error on the last attempt: gives up when the
\* rotation fails
OnQuota_GiveUp(fr, resp, outs) ==
    LET rot == get_next_api_key_and_setup(fr.n, fr.pos, fr.model, outs)
    IN IF ~rot.ok
       THEN Outcome(TRUE, FALSE, fr.text, fr.attempt, rot, 0)
       ELSE Outcome(FALSE, FALSE, <<>>, 0, rot, 0)

\* OnQuota handled like an empty response: the same key again, no rotation
OnQuota_RetrySameKey(fr, resp, outs) ==
    IF fr.attempt < max_retries_per_key - 1
    THEN Outcome(FALSE, FALSE, <<>>, fr.attempt + 1, NoRotation, Backoff(fr.attempt))
    ELSE Outcome(FALSE, FALSE, <<>>, 0, NoRotation, 0)

\* lines 149-159: ResourceExhausted.  The continue at line 158 continues the
\* for loop: the next attempt, or the end of the for loop and the while again.
OnQuota(fr, resp, outs) ==
    LET rot == get_next_api_key_and_setup(fr.n, fr.pos, fr.model, outs)
    IN IF ~rot.ok
       THEN Outcome(FALSE, FALSE, <<>>,
                    IF fr.attempt < max_retries_per_key - 1 THEN fr.attempt + 1 ELSE 0,
                    rot, wait_time_on_all_keys_exhausted)
       ELSE Outcome(FALSE, FALSE, <<>>, 0, rot, 0)

\* lines 160-173: any other exception
OnError(fr, resp, outs) ==
    IF fr.attempt < max_retries_per_key - 1
    THEN Outcome(FALSE, FALSE, <<>>, fr.attempt + 1, NoRotation, Backoff(fr.attempt))
    ELSE LET rot == get_next_api_key_and_setup(fr.n, fr.pos, fr.model, outs)
         IN IF ~rot.ok
            THEN Outcome(TRUE, FALSE, fr.text, fr.attempt, rot, 0)
            ELSE Outcome(FALSE, FALSE, <<>>, 0, rot, 0)

\* whether handling resp calls get_next_api_key_and_setup (lines 153, 170)
Rotates(fr, resp) ==
    \/ resp.kind = "quota"
    \/ resp.kind = "error" /\ ~(fr.attempt < max_retries_per_key - 1)

\* lines 131-173: one pass of the try block
Handle(fr, resp, outs) ==
    CASE resp.kind = "text" -> OnText(fr, resp, outs)
      [] resp.kind = "empty" -> OnEmpty(fr, resp, outs)
      [] resp.kind = "quota" -> OnQuota(fr, resp, outs)
      [] OTHER -> OnError(fr, resp, outs)

\* translate_text_entry without the pre-translation filter
translate_text_entry_NoFilter(text_content, model) ==
    IF strip(text_content) = <<>> THEN "blank"
    ELSE IF model = 0 THEN "nomodel"
    ELSE "call"

\* lines 105-128: what translate_text does before its first remote call
\*   "blank": return "", True          "filtered": return text_content, True
\*   "nomodel": no active model, get_next_api_key_and_setup is called first
\*   "call": go on to the remote call
translate_text_entry(text_content, model) ==
    IF strip(text_content) = <<>> THEN "blank"
    ELSE IF ~is_meaningful_text(text_content) THEN "filtered"
    ELSE IF model = 0 THEN "nomodel"
    ELSE "call"

\* StoreResult replacing the entries of the file by the new entry
StoreResult_Replace(cache, key, text_hash, translated_text) ==
    IF translated_text # <<>>
    THEN [cache EXCEPT ![key] = Put(EmptyDict, text_hash, translated_text)]
    ELSE cache

\* lines 252-253: the cache after a resolution of the segment
StoreResult(cache, key, text_hash, translated_text) ==
    IF translated_text # <<>>
    THEN [cache EXCEPT ![key] = Put(cache[key], text_hash, translated_text)]
    ELSE cache

\* lines 255-256: the tree after a resolution of node i
ReplaceNode(tree, i, translated_text) ==
    IF translated_text # <<>> THEN [tree EXCEPT ![i] = translated_text] ELSE tree

\* lines 211-212
EnsureKey(cache, key) == IF key \in DOMAIN cache THEN cache ELSE Put(cache, key, EmptyDict)

\* PassStatus ignoring the errors of the pass
PassStatus_AlwaysCompleted(had_errors) == "completed"

\* lines 261-265: the status a finished pass records
PassStatus(had_errors) == IF had_errors THEN "failed" ELSE "completed"

\* line 475
all_completed(status) == \A k \in DOMAIN status : status[k] = "completed"

\* ShouldCleanup that never holds: the workspace is always kept
ShouldCleanup_Never(status, ws, sf, cf) == FALSE

\* line 476
ShouldCleanup(status, ws, sf, cf) ==
    all_completed(status) /\ ws /\ sf.exists /\ cf.exists

\* line 450-452: main skips the file
IsSkipped(status, html_file_abs_path) ==
    Get(status, html_file_rel_path(html_file_abs_path), "pending") = "completed"

\* ------------------------------------------------------------------- state
VARIABLES
    book,                \* the input EPUB (never modified)
    wsExists,            \* temp_dir holds the extracted book
    disk,                \* the HTML files in temp_dir
    statusFile,          \* <stem>_file_status.json
    cacheFile,           \* <stem>_translation_cache.json
    epubWritten,         \* this run wrote the output EPUB
    run,                 \* number of runs of main started so far
    pc,                  \* "idle" | "walk" | "node" | "remote"
    exitKind,            \* how the last run of main ended
    cleaned,             \* the finally block of this run removed temp_dir
    nkeys,               \* len(_api_keys)
    iterPos,             \* the key next(_api_key_iterator) yields
    current_model,       \* _current_model: the key it was built with, 0 = None
    translation_status,
    translation_cache,
    html_files,          \* find_html_files(temp_dir), in os.walk order
    fi,                  \* position of the for loop of main in html_files
    soup,                \* the text nodes of the parsed file
    ni,                  \* position of the for loop over the text nodes
    file_had_errors,
    tt,                  \* the call of translate_text that runs or just returned,
                         \* with the last remote call and rotation it made
    failStored,          \* cache entries stored from a (text, False) result
    usedFailed,          \* this pass resolved a segment by a (text, False) result
                         \* or by a cache entry stored from one
    cleanRun             \* this run started on an absent workspace and so far
                         \* every file was read, parsed and written back and every
                         \* segment resolved with success = True

vars ==
    <<book, wsExists, disk, statusFile, cacheFile, epubWritten, run, pc, exitKind,
      cleaned, nkeys, iterPos, current_model, translation_status, translation_cache,
      html_files, fi, soup, ni, file_had_errors, tt, failStored, usedFailed,
      cleanRun>>

Files == DOMAIN book

NoCall ==
    [arg |-> <<>>, attempt |-> 0, calls |-> 0, consec |-> 0, lastKey |-> 0,
     lastResp |-> "none", rot |-> NoRotation, slept |-> 0, ret |-> "none",
     result |-> <<>>]

\* the file and cache key of the pass in progress
curFile == html_files[fi]
curKey == file_relative_path(AbsPath(curFile))

Init ==
    /\ book \in Books
    /\ wsExists = FALSE
    /\ disk = book
    /\ statusFile = NoFile
    /\ cacheFile = NoFile
    /\ epubWritten = FALSE
    /\ run = 0
    /\ pc = "idle"
    /\ exitKind = "none"
    /\ cleaned = FALSE
    /\ nkeys = 1
    /\ iterPos = 1
    /\ current_model = 0
    /\ translation_status = EmptyDict
    /\ translation_cache = EmptyDict
    /\ html_files = <<>>
    /\ fi = 1
    /\ soup = <<>>
    /\ ni = 1
    /\ file_had_errors = FALSE
    /\ tt = NoCall
    /\ failStored = {}
    /\ usedFailed = FALSE
    /\ cleanRun = FALSE

\* lines 474-480: the finally block of main, ending the process.  The memory
\* of the process is gone afterwards; translation_status is kept as the
\* tracker the finally block judged.
FinallyBlock ==
    /\ pc' = "idle"
    /\ nkeys' = 1
    /\ iterPos' = 1
    /\ current_model' = 0
    /\ translation_cache' = EmptyDict
    /\ html_files' = <<>>
    /\ fi' = 1
    /\ soup' = <<>>
    /\ ni' = 1
    /\ file_had_errors' = FALSE
    /\ tt' = NoCall
    /\ UNCHANGED <<translation_status, cleanRun>>
    /\ IF ShouldCleanup(translation_status, wsExists, statusFile, cacheFile)
       THEN /\ cleaned' = TRUE
            /\ wsExists' = FALSE
            /\ disk' = book
            /\ statusFile' = NoFile
            /\ cacheFile' = NoFile
            /\ failStored' = {}
            /\ usedFailed' = FALSE
       ELSE /\ cleaned' = FALSE
            /\ usedFailed' = FALSE
            /\ UNCHANGED <<wsExists, disk, statusFile, cacheFile, failStored>>

\* lines 332-445: main up to the for loop over the files
StartRun ==
    /\ pc = "idle"
    /\ run < MaxRuns
    /\ run' = run + 1
    /\ \E n \in 1..MaxKeys : \E outs \in SetupOutcomes(n) :
       \E order \in Perms(Files) : \E extractOk \in BOOLEAN :
         LET rot == get_next_api_key_and_setup(n, 1, 0, outs)
             fresh == ~wsExists
             starts == rot.ok /\ (~fresh \/ extractOk)
         IN /\ nkeys' = n
            /\ iterPos' = rot.pos
            /\ current_model' = rot.model
            /\ tt' = [NoCall EXCEPT !.rot = rot]
            /\ fi' = 1
            /\ ni' = 1
            /\ soup' = <<>>
            /\ file_had_errors' = FALSE
            /\ cleaned' = FALSE
            /\ epubWritten' = FALSE
            /\ usedFailed' = FALSE
            /\ UNCHANGED <<book, statusFile, cacheFile>>
            /\ cleanRun' = (fresh /\ starts)
            /\ failStored' = {e \in failStored : /\ cacheFile.exists
                                                 /\ e[1] \in DOMAIN cacheFile.data
                                                 /\ e[2] \in DOMAIN cacheFile.data[e[1]]}
            /\ IF ~rot.ok
               THEN \* line 352-354
                    /\ exitKind' = "nosetup"
                    /\ pc' = "idle"
                    /\ translation_status' = EmptyDict
                    /\ translation_cache' = EmptyDict
                    /\ html_files' = <<>>
                    /\ UNCHANGED <<wsExists, disk>>
               ELSE /\ translation_status' = IF statusFile.exists THEN statusFile.data ELSE EmptyDict
                    /\ IF fresh /\ ~extractOk
                       THEN \* line 431-433
                            /\ exitKind' = "extractfail"
                            /\ pc' = "idle"
                            /\ html_files' = <<>>
                            /\ translation_cache' = EmptyDict
                            /\ UNCHANGED <<wsExists, disk>>
                       ELSE /\ exitKind' = "running"
                            /\ translation_cache' =
                                   IF cacheFile.exists THEN cacheFile.data ELSE EmptyDict
                            /\ pc' = "walk"
                            /\ html_files' = order
                            /\ wsExists' = TRUE
                            /\ disk' = IF fresh THEN book ELSE disk

\* Persist saving the tracker only
Persist_StatusOnly(status, cache) ==
    /\ statusFile' = Saved(status)
    /\ cacheFile' = cacheFile

\* lines 461-465: main saves the tracker and the cache
Persist(status, cache) ==
    /\ statusFile' = Saved(status)
    /\ cacheFile' = Saved(cache)

\* lines 447-458 and 208-234: the next file: skipped, unparsable, or parsed
BeginFile ==
    /\ pc = "walk"
    /\ fi <= Len(html_files)
    /\ LET file_path == AbsPath(curFile)
       IN IF IsSkipped(translation_status, file_path)
          THEN /\ fi' = fi + 1
               /\ UNCHANGED <<pc, translation_status, translation_cache, soup, ni,
                              file_had_errors, statusFile, cacheFile, usedFailed,
                              cleanRun>>
          ELSE \E parseOk \in BOOLEAN :
               /\ translation_cache' = EnsureKey(translation_cache, curKey)
               /\ file_had_errors' = FALSE
               /\ ni' = 1
               /\ IF parseOk
                  THEN /\ soup' = disk[curFile]
                       /\ pc' = "node"
                       /\ usedFailed' = FALSE
                       /\ UNCHANGED <<fi, translation_status, statusFile, cacheFile,
                                      cleanRun>>
                  ELSE /\ translation_status' =
                              Put(translation_status, StatusKey(file_path), "failed")
                       /\ Persist(translation_status', translation_cache')
                       /\ fi' = fi + 1
                       /\ cleanRun' = FALSE
                       /\ UNCHANGED <<pc, soup, usedFailed>>
    /\ UNCHANGED <<book, wsExists, disk, epubWritten, run, exitKind, cleaned, nkeys,
                   iterPos, current_model, html_files, tt, failStored>>

\* lines 249-256: the result (translated_text, success) of translate_text for
\* node ni is recorded; the for loop moves to the next node
Resolve(translated_text, success, text_hash) ==
    /\ file_had_errors' = (file_had_errors \/ ~success)
    /\ translation_cache' = StoreResult(translation_cache, curKey, text_hash, translated_text)
    /\ soup' = ReplaceNode(soup, ni, translated_text)
    /\ ni' = ni + 1
    /\ failStored' = IF translated_text = <<>> THEN failStored
                     ELSE IF success THEN failStored \ {<<curKey, text_hash>>}
                     ELSE failStored \cup {<<curKey, text_hash>>}
    /\ usedFailed' = (usedFailed \/ ~success)
    /\ cleanRun' = (cleanRun /\ success)

\* lines 236-256: one text node, up to the first remote call it needs
WalkNode ==
    /\ pc = "node"
    /\ ni <= Len(soup)
    /\ LET original_text == strip(soup[ni])
           text_hash == sha256(original_text)
       IN IF original_text = <<>>
          THEN /\ ni' = ni + 1
               /\ tt' = NoCall
               /\ UNCHANGED <<pc, translation_cache, soup, file_had_errors,
                              failStored, usedFailed, iterPos, current_model, cleanRun>>
          ELSE IF text_hash \in DOMAIN translation_cache[curKey]
          THEN /\ soup' = ReplaceNode(soup, ni, translation_cache[curKey][text_hash])
               /\ ni' = ni + 1
               /\ usedFailed' = (usedFailed \/ <<curKey, text_hash>> \in failStored)
               /\ cleanRun' = (cleanRun /\ <<curKey, text_hash>> \notin failStored)
               /\ tt' = NoCall
               /\ UNCHANGED <<pc, translation_cache, file_had_errors, failStored,
                              iterPos, current_model>>
          ELSE LET entry == translate_text_entry(original_text, current_model)
               IN CASE entry = "blank" ->
                        /\ tt' = [NoCall EXCEPT !.arg = original_text, !.ret = "ok"]
                        /\ Resolve(<<>>, TRUE, text_hash)
                        /\ UNCHANGED <<pc, iterPos, current_model>>
                    [] entry = "filtered" ->
                        /\ tt' = [NoCall EXCEPT !.arg = original_text, !.ret = "ok",
                                                !.result = original_text]
                        /\ Resolve(original_text, TRUE, text_hash)
                        /\ UNCHANGED <<pc, iterPos, current_model>>
                    [] entry = "nomodel" ->
                        \E outs \in SetupOutcomes(nkeys) :
                          LET rot == get_next_api_key_and_setup(nkeys, iterPos,
                                                                current_model, outs)
                          IN /\ iterPos' = rot.pos
                             /\ current_model' = rot.model
                             /\ IF rot.ok
                                THEN /\ tt' = [NoCall EXCEPT !.arg = original_text,
                                                             !.rot = rot]
                                     /\ pc' = "remote"
                                     /\ UNCHANGED <<translation_cache, soup, ni,
                                                    file_had_errors, failStored, usedFailed,
                                                    cleanRun>>
                                ELSE /\ tt' = [NoCall EXCEPT !.arg = original_text,
                                                 !.rot = rot, !.ret = "fail",
                                                 !.result = original_text]
                                     /\ Resolve(original_text, FALSE, text_hash)
                                     /\ UNCHANGED pc
                    [] OTHER ->
                        /\ tt' = [NoCall EXCEPT !.arg = original_text]
                        /\ pc' = "remote"
                        /\ UNCHANGED <<translation_cache, soup, ni, file_had_errors,
                                       failStored, usedFailed, iterPos, current_model,
                                       cleanRun>>
    /\ UNCHANGED <<book, wsExists, disk, statusFile, cacheFile, epubWritten, run,
                   exitKind, cleaned, nkeys, translation_status, html_files, fi>>

\* lines 131-173 and 249-256: one remote call of translate_text and what
\* follows it, up to the next remote call or the next node
RemoteCall ==
    /\ pc = "remote"
    /\ \E resp \in Responses :
       LET fr == [text |-> tt.arg, attempt |-> tt.attempt, n |-> nkeys,
                  pos |-> iterPos, model |-> current_model]
       IN \E outs \in (IF Rotates(fr, resp) THEN SetupOutcomes(nkeys)
                                            ELSE {[k \in 1..nkeys |-> TRUE]}) :
         /\ resp.kind # "text" => tt.calls < MaxCalls
         /\ LET o == Handle(fr, resp, outs)
            IN /\ iterPos' = IF o.rot.invoked THEN o.rot.pos ELSE iterPos
               /\ current_model' = IF o.rot.invoked THEN o.rot.model ELSE current_model
               /\ tt' = [tt EXCEPT !.attempt = o.attempt,
                                   !.calls = @ + 1,
                                   !.consec = IF o.rot.invoked \/ resp.kind = "text"
                                              THEN 0 ELSE @ + 1,
                                   !.lastKey = current_model,
                                   !.lastResp = resp.kind,
                                   !.rot = o.rot,
                                   !.slept = o.slept,
                                   !.ret = IF ~o.done THEN "none"
                                           ELSE IF o.ok THEN "ok" ELSE "fail",
                                   !.result = IF o.done THEN o.text ELSE <<>>]
               /\ IF o.done
                  THEN /\ Resolve(o.text, o.ok, sha256(tt.arg))
                       /\ pc' = "node"
                  ELSE UNCHANGED <<pc, translation_cache, soup, ni, file_had_errors,
                                   failStored, usedFailed, cleanRun>>
    /\ UNCHANGED <<book, wsExists, disk, statusFile, cacheFile, epubWritten, run,
                   exitKind, cleaned, nkeys, translation_status, html_files, fi>>

\* lines 258-271 and 459-465: the end of a pass over a file
FinishFile ==
    /\ pc = "node"
    /\ ni > Len(soup)
    /\ \E writeOk \in BOOLEAN :
         /\ disk' = IF writeOk THEN [disk EXCEPT ![curFile] = soup] ELSE disk
         /\ translation_status' =
                Put(translation_status, StatusKey(AbsPath(curFile)),
                    IF writeOk THEN PassStatus(file_had_errors) ELSE "failed")
         /\ cleanRun' = (cleanRun /\ writeOk)
    /\ Persist(translation_status', translation_cache)
    /\ fi' = fi + 1
    /\ pc' = "walk"
    /\ soup' = <<>>
    /\ ni' = 1
    /\ file_had_errors' = FALSE
    /\ tt' = NoCall
    /\ usedFailed' = FALSE
    /\ UNCHANGED <<book, wsExists, epubWritten, run, exitKind, cleaned, nkeys, iterPos,
                   current_model, translation_cache, html_files, failStored>>

\* lines 467-480: repackaging, then the finally block
EndRun ==
    /\ pc = "walk"
    /\ fi > Len(html_files)
    /\ \E ok \in BOOLEAN : epubWritten' = ok
    /\ exitKind' = "finished"
    /\ FinallyBlock
    /\ UNCHANGED <<book, run>>

\* KeyboardInterrupt inside the try block of main (lines 437-472)
Interrupt ==
    /\ pc \in {"walk", "node", "remote"}
    /\ exitKind' = "interrupted"
    /\ FinallyBlock
    /\ UNCHANGED <<book, epubWritten, run>>

Next == StartRun \/ BeginFile \/ WalkNode \/ RemoteCall \/ FinishFile \/ EndRun \/ Interrupt

Spec == Init /\ [][Next]_vars

\* ------------------------------------------------------------ properties
inPass == pc \in {"node", "remote"}

\* the persisted tracker holds a "completed" mark for file f
RecordedCompleted(f) ==
    /\ statusFile.exists
    /\ \E k \in DOMAIN statusFile.data :
          k \in {StatusKey(AbsPath(f)), f} /\ statusFile.data[k] = "completed"

\* the status the tracker of this run holds for file f
TrackedStatus(f) ==
    Get(translation_status, StatusKey(AbsPath(f)), Get(translation_status, f, "pending"))

\* C1 (resume skip): no text node of a file is walked while the persisted
\* tracker, which is rewritten only when a pass over a file ends, marks that
\* file "completed".
C1_ResumeSkip == inPass => ~RecordedCompleted(curFile)

\* C2 (workspace preservation): when a run has ended with the workspace
\* deleted, every HTML file of the book has status "completed".
C2_WorkspacePreservation ==
    (pc = "idle" /\ cleaned) => \A f \in Files : TrackedStatus(f) = "completed"

\* C3 (completed-status invariant): a pass that ends with the file marked
\* "completed" resolved no segment by a client failure, nor by a cache entry
\* that was stored from a client failure.
C3_CompletedOnlyIfResolved ==
    [][(pc = "node" /\ pc' = "walk"
           /\ Get(translation_status', StatusKey(AbsPath(curFile)), "pending") = "completed")
         => ~usedFailed]_vars

\* node i of file f was translated in an earlier pass whose results were saved:
\* the persisted cache maps the hash of its original text to the text the
\* node now holds in the workspace
AlreadyResolved(f, i) ==
    LET key == file_relative_path(AbsPath(f))
        h == sha256(strip(book[f][i]))
    IN /\ cacheFile.exists
       /\ key \in DOMAIN cacheFile.data
       /\ h \in DOMAIN cacheFile.data[key]
       /\ cacheFile.data[key][h] = strip(disk[f][i])

\* C4 (no re-billing on re-walk): no remote call is issued for a node of a
\* failed or pending file that was already resolved and saved in the cache.
C4_NoRebilling ==
    (pc = "remote" /\ ~RecordedCompleted(curFile)) => ~AlreadyResolved(curFile, ni)

\* C5 (cache correctness): within one pass over a file, no remote call is made
\* for a segment whose trimmed text an earlier node of the file had, and nodes
\* with the same trimmed text end with the same text.
C5_CacheCorrectness ==
    /\ pc = "remote" =>
          \A j \in 1..(ni - 1) : strip(disk[curFile][j]) # tt.arg
    /\ inPass =>
          \A j, k \in 1..(ni - 1) :
             strip(disk[curFile][j]) = strip(disk[curFile][k]) => soup[j] = soup[k]

C7_QuotaRotates ==
    [][(pc = "remote" /\ tt.lastResp = "quota" /\ tt'.calls = tt.calls + 1)
         => /\ tt.rot.invoked
            /\ tt'.lastKey = current_model
            /\ (nkeys >= 2 /\ tt.rot.ok /\ Len(tt.rot.tried) = 1)
                  => tt'.lastKey # tt.lastKey]_vars

C7_Witness ==
    /\ pc = "remote" /\ tt.lastResp = "quota" /\ nkeys >= 2
    /\ tt.rot.ok /\ Len(tt.rot.tried) = 1 /\ current_model # tt.lastKey

\* C8 (bounded retry then rotate): a remote call is never made after
\* max_retries_per_key consecutive calls that failed otherwise than by quota
\* without a rotation since.
C8_BoundedRetry == pc = "remote" => tt.consec < max_retries_per_key

Range(q) == {q[i] : i \in 1..Len(q)}

\* C9 (rotation exhaustion): a call of get_next_api_key_and_setup that fails
\* has attempted exactly len(_api_keys) activations, one per key; no call
\* attempts more, or attempts a key twice.
C9_RotationExhaustion ==
    tt.rot.invoked =>
       /\ Len(tt.rot.tried) <= tt.rot.n
       /\ Cardinality(Range(tt.rot.tried)) = Len(tt.rot.tried)
       /\ ~tt.rot.ok => (Len(tt.rot.tried) = tt.rot.n /\ Range(tt.rot.tried) = 1..tt.rot.n)
       /\ tt.rot.ok => tt.rot.model = tt.rot.tried[Len(tt.rot.tried)]

C9_Witness == tt.rot.invoked /\ ~tt.rot.ok /\ tt.rot.n >= 2 /\ tt.calls >= 1

\* C10 (pass-through): a call of translate_text for a segment the filter
\* rejects returns at once the original text with succeeded = true, with no
\* remote call and no rotation, and leaves file_had_errors as it was.
C10_PassThrough ==
    [][(pc = "node" /\ tt'.arg # <<>> /\ ~is_meaningful_text(tt'.arg))
         => /\ pc' = "node"
            /\ tt'.ret = "ok" /\ tt'.result = tt'.arg
            /\ tt'.calls = 0 /\ ~tt'.rot.invoked
            /\ current_model' = current_model /\ iterPos' = iterPos
            /\ file_had_errors' = file_had_errors
            /\ soup'[ni] = tt'.arg]_vars

C10_Witness ==
    /\ pc = "node" /\ tt.arg = tNum /\ tt.ret = "ok" /\ tt.result = tNum
    /\ tt.calls = 0 /\ ~file_had_errors

\* the for loop of main over html_files is running
inWalk == pc \in {"walk", "node", "remote"}

\* the entry (k, h) of the in-memory cache is in the persisted cache
PersistedEntry(k, h) ==
    /\ cacheFile.exists
    /\ k \in DOMAIN cacheFile.data
    /\ h \in DOMAIN cacheFile.data[k]
    /\ cacheFile.data[k][h] = translation_cache[k][h]

\* the hash h is that of a node the pass in flight has already walked
WalkedInFlight(h) ==
    inPass /\ \E i \in 1..(ni - 1) : h = sha256(strip(disk[curFile][i]))

NameRank(c) ==
    CASE c = "c.html" -> 1
      [] c = "d1" -> 2
      [] c = "d2" -> 3
      [] c = "e.html" -> 4

\* p sorts before q: the paths of the book have two components
PathLess(p, q) ==
    \/ NameRank(p[1]) < NameRank(q[1])
    \/ p[1] = q[1] /\ NameRank(p[2]) < NameRank(q[2])

\* C12 (deterministic order): the list of files the for loop of main walks is
\* in ascending order of relative path.
C12_AscendingOrder ==
    inWalk => \A i, j \in 1..Len(html_files) :
                 i < j => PathLess(html_files[i], html_files[j])

\* C13 (failure does not abort the run): a step in which translate_text
\* returns succeeded = false leaves the segment with its original text, sets
\* file_had_errors and moves on to the next node of the same file; nodes and
\* files are left one at a time, a pass ends only after its last node and
\* marks the file "failed" if it had errors, an unparsable file is marked
\* "failed" and the walk moves on to the next file; and the walk ends, unless
\* interrupted, only in the repackaging that follows the last file.
C13_FailureDoesNotAbort ==
    [][/\ (inPass /\ tt'.ret = "fail") =>
            /\ pc' = "node" /\ fi' = fi /\ ni' = ni + 1
            /\ soup'[ni] = strip(soup[ni])
            /\ file_had_errors'
            /\ exitKind' = "running"
       /\ (inPass /\ inPass' /\ ni' # ni) => (ni' = ni + 1 /\ fi' = fi)
       /\ (inPass /\ pc' = "walk") =>
            /\ ni > Len(soup) /\ fi' = fi + 1 /\ exitKind' = "running"
            /\ file_had_errors =>
                  Get(translation_status', StatusKey(AbsPath(curFile)), "pending") = "failed"
       /\ (pc = "walk" /\ pc' = "walk" /\ fi' # fi) =>
            /\ fi' = fi + 1 /\ exitKind' = "running"
            /\ \/ IsSkipped(translation_status, AbsPath(curFile))
               \/ Get(translation_status', StatusKey(AbsPath(curFile)), "pending") = "failed"
       /\ (inWalk /\ pc' = "idle") =>
            \/ exitKind' = "interrupted"
            \/ exitKind' = "finished" /\ fi > Len(html_files)
      ]_vars

\* a first run that met a client failure reached repackaging, with the file of
\* the failed segment marked "failed" and another file "completed"
C13_Witness ==
    /\ pc = "idle" /\ run = 1 /\ exitKind = "finished" /\ epubWritten
    /\ failStored # {}
    /\ \A f \in Files : AbsPath(f) \in DOMAIN translation_status
    /\ \E f, g \in Files : /\ TrackedStatus(f) = "failed"
                            /\ TrackedStatus(g) = "completed"

\* C14 (successful run ends clean): a run that started on an absent workspace,
\* read, parsed and wrote back every file, resolved every segment with
\* success and reached the end of main has every file of the book marked
\* "completed" and has deleted the workspace with the persisted tracker and
\* cache.
C14_SuccessfulRunEndsClean ==
    (pc = "idle" /\ exitKind = "finished" /\ cleanRun) =>
       /\ \A f \in Files : TrackedStatus(f) = "completed"
       /\ cleaned /\ ~wsExists /\ ~statusFile.exists /\ ~cacheFile.exists

\* such a run has ended, with a tracker that names every file of the book
C14_Witness ==
    /\ pc = "idle" /\ exitKind = "finished" /\ cleanRun /\ cleaned
    /\ Cardinality(DOMAIN translation_status) = Cardinality(Files)

\* C15 (cache write-once): no step of a run changes or removes an entry the
\* in-memory cache holds, and a step that adds an entry adds it under the key
\* of the file in flight, for the hash of the node being resolved, which had
\* no entry.
C15_CacheWriteOnce ==
    [][(inWalk /\ inWalk') =>
         /\ \A k \in DOMAIN translation_cache : \A h \in DOMAIN translation_cache[k] :
               /\ k \in DOMAIN translation_cache'
               /\ h \in DOMAIN translation_cache'[k]
               /\ translation_cache'[k][h] = translation_cache[k][h]
         /\ \A k \in DOMAIN translation_cache' : \A h \in DOMAIN translation_cache'[k] :
               (k \notin DOMAIN translation_cache \/ h \notin DOMAIN translation_cache[k])
                  => /\ inPass /\ k = curKey
                     /\ h = sha256(strip(soup[ni]))
      ]_vars

\* the file in flight has stored a second entry beside one it already had
C15_Witness ==
    /\ inPass /\ ni = 3
    /\ Cardinality(DOMAIN translation_cache[curKey]) >= 2

\* C16 (cache scoping by file): in a first run, which starts with an empty
\* cache, the lookup for a node of a file finds an entry only if an earlier node of
\* that same file has the same trimmed text; an entry stored while another
\* file was processed is never returned.
C16_CacheScopedByFile ==
    (pc = "node" /\ ni <= Len(soup) /\ run = 1
        /\ sha256(strip(soup[ni])) \in DOMAIN translation_cache[curKey])
      => \E j \in 1..(ni - 1) : strip(disk[curFile][j]) = strip(soup[ni])

\* ------------------------------------------------- the filter on its own
\* is_meaningful_text applied to every text of up to MaxTextLen characters
\* over a Latin letter, a CJK ideograph, a rule symbol, another punctuation
\* mark and a blank.  The text is held in tt.arg, the verdict in tt.ret.
FilterChars == {"a", "zh", "-", "!", " "}

FilterTexts == UNION {[1..n -> FilterChars] : n \in 0..MaxTextLen}

FilterInit ==
    /\ book = (P1 :> <<tA>>)
    /\ wsExists = FALSE
    /\ disk = book
    /\ statusFile = NoFile
    /\ cacheFile = NoFile
    /\ epubWritten = FALSE
    /\ run = 0
    /\ pc = "idle"
    /\ exitKind = "none"
    /\ cleaned = FALSE
    /\ nkeys = 1
    /\ iterPos = 1
    /\ current_model = 0
    /\ translation_status = EmptyDict
    /\ translation_cache = EmptyDict
    /\ html_files = <<>>
    /\ fi = 1
    /\ soup = <<>>
    /\ ni = 1
    /\ file_had_errors = FALSE
    /\ tt \in {[NoCall EXCEPT !.arg = t] : t \in FilterTexts}
    /\ failStored = {}
    /\ usedFailed = FALSE
    /\ cleanRun = FALSE

\* lines 72-96: one call of is_meaningful_text(tt.arg)
FilterApply ==
    /\ tt.ret = "none"
    /\ tt' = [tt EXCEPT !.ret = IF is_meaningful_text(tt.arg) THEN "meaningful"
                                                              ELSE "not_meaningful"]
    /\ UNCHANGED <<book, wsExists, disk, statusFile, cacheFile, epubWritten, run, pc,
                   exitKind, cleaned, nkeys, iterPos, current_model, translation_status,
                   translation_cache, html_files, fi, soup, ni, file_had_errors,
                   failStored, usedFailed, cleanRun>>

FilterNext == FilterApply

FilterSpec == FilterInit /\ [][FilterNext]_vars

\* the letters of the scripts the specification calls meaningful
ScriptLetters == Latin \cup CJK \cup Cyrillic

\* t is a run of one repeated rule symbol, optionally with a single letter
\* inside it
SymbolRunAroundLetter(t) ==
    /\ Len(t) >= 2
    /\ \E c \in RuleSymbols : \E m \in 0..Len(t) :
          /\ m # 1 /\ m # Len(t)
          /\ \A i \in 1..Len(t) : IF i = m THEN t[i] \in ScriptLetters ELSE t[i] = c

\* C17 (filter rule 4): is_meaningful_text returns false for every run of a
\* repeated symbol, with or without a single letter in the middle, whatever
\* the lengths of the runs on either side.
C17_FilterRule4 ==
    (tt.ret \in {"meaningful", "not_meaningful"} /\ SymbolRunAroundLetter(tt.arg))
       => tt.ret = "not_meaningful"

\* the number of characters of t that are letters of the meaningful scripts
RECURSIVE CountScript(_)
CountScript(t) ==
    IF t = <<>> THEN 0
    ELSE (IF Head(t) \in ScriptLetters THEN 1 ELSE 0) + CountScript(Tail(t))

\* C18 (filter rule 3): is_meaningful_text returns false for every text of
\* more than 5 characters of which less than 0.15 (3/20) are letters of the
\* meaningful scripts.
C18_FilterRule3 ==
    (tt.ret \in {"meaningful", "not_meaningful"}
        /\ Len(tt.arg) > 5 /\ CountScript(tt.arg) * 20 < 3 * Len(tt.arg))
       => tt.ret = "not_meaningful"

\* C19 (cooldown on full exhaustion): when a remote call fails with a quota
\* error and with it every key of the pool has answered the segment's request
\* with a quota error in turn (the pool has one key, or it has two and the
\* call before, on the other key, failed with a quota error too), the client
\* sleeps the cooldown before it goes on.
C19_CooldownOnExhaustion ==
    [][(/\ pc = "remote" /\ tt'.calls = tt.calls + 1 /\ tt'.lastResp = "quota"
        /\ \/ nkeys = 1
           \/ nkeys = 2 /\ tt.lastResp = "quota" /\ tt'.lastKey # tt.lastKey)
         => tt'.slept = wait_time_on_all_keys_exhausted]_vars

\* the cache d (in memory or as persisted) has an entry for the pair e
HasEntry(d, e) == e[1] \in DOMAIN d /\ e[2] \in DOMAIN d[e[1]]

\* C20 (cache holds only resolved segments): no entry of the cache, in memory
\* or as persisted, is one that was stored from a result of translate_text
\* with succeeded = false.
C20_CacheOnlyResolved ==
    \A e \in failStored :
       /\ ~HasEntry(translation_cache, e)
       /\ ~(cacheFile.exists /\ HasEntry(cacheFile.data, e))

\* ------------------------------------------ translate_text on its own
\* One call of translate_text for the first segment of a one-file book, in an
\* environment in which every activation succeeds and one key of the pool,
\* the last one, returns a translation whenever it is called, while the other
\* keys answer with any mix of quota errors, other errors and empty responses.
\* the segments: the texts of one to MaxSegLen Latin letters
ClientTexts == UNION {[1..n -> Latin] : n \in 1..MaxSegLen}

\* the key whose calls return a translation
GoodKey == nkeys

\* setup_gemini_api succeeds for every key
AllActivate(n) == [k \in 1..n |-> TRUE]

\* outcomes of _current_model.generate_content(prompt) on the key
ClientResponses(key) ==
    IF key = GoodKey
    THEN {[kind |-> "text", text |-> tZh]}
    ELSE {[kind |-> k, text |-> <<>>] : k \in {"empty", "quota", "error"}}

\* main has set up a key and translate_html_file has reached the first remote
\* call for the only text node of the only file
ClientInit ==
    /\ \E t \in ClientTexts :
         /\ book = (P1 :> <<t>>)
         /\ tt = [NoCall EXCEPT !.arg = t]
    /\ wsExists = TRUE
    /\ disk = book
    /\ statusFile = NoFile
    /\ cacheFile = NoFile
    /\ epubWritten = FALSE
    /\ run = 1
    /\ pc = "remote"
    /\ exitKind = "running"
    /\ cleaned = FALSE
    /\ nkeys \in 1..MaxKeys
    /\ current_model \in 1..nkeys
    /\ iterPos = (current_model % nkeys) + 1
    /\ translation_status = EmptyDict
    /\ translation_cache = EnsureKey(EmptyDict, file_relative_path(AbsPath(P1)))
    /\ html_files = <<P1>>
    /\ fi = 1
    /\ soup = disk[P1]
    /\ ni = 1
    /\ file_had_errors = FALSE
    /\ failStored = {}
    /\ usedFailed = FALSE
    /\ cleanRun = TRUE

\* lines 131-173 and 249-256: one remote call of translate_text and what
\* follows it, in that environment; the counters of calls stop at their bounds
ClientCall ==
    /\ pc = "remote"
    /\ \E resp \in ClientResponses(current_model) :
       LET fr == [text |-> tt.arg, attempt |-> tt.attempt, n |-> nkeys,
                  pos |-> iterPos, model |-> current_model]
           o == Handle(fr, resp, AllActivate(nkeys))
       IN /\ iterPos' = IF o.rot.invoked THEN o.rot.pos ELSE iterPos
          /\ current_model' = IF o.rot.invoked THEN o.rot.model ELSE current_model
          /\ tt' = [tt EXCEPT !.attempt = o.attempt,
                              !.calls = IF @ < MaxCalls THEN @ + 1 ELSE @,
                              !.consec = IF o.rot.invoked \/ resp.kind = "text" THEN 0
                                         ELSE IF @ < max_retries_per_key THEN @ + 1
                                         ELSE @,
                              !.lastKey = current_model,
                              !.lastResp = resp.kind,
                              !.rot = o.rot,
                              !.slept = o.slept,
                              !.ret = IF ~o.done THEN "none"
                                      ELSE IF o.ok THEN "ok" ELSE "fail",
                              !.result = IF o.done THEN o.text ELSE <<>>]
          /\ IF o.done
             THEN /\ Resolve(o.text, o.ok, sha256(tt.arg))
                  /\ pc' = "node"
             ELSE UNCHANGED <<pc, translation_cache, soup, ni, file_had_errors,
                              failStored, usedFailed, cleanRun>>
    /\ UNCHANGED <<book, wsExists, disk, statusFile, cacheFile, epubWritten, run,
                   exitKind, cleaned, nkeys, translation_status, html_files, fi>>

ClientNext == ClientCall

\* the process is not stopped: translate_text keeps taking its next step
ClientSpec == ClientInit /\ [][ClientNext]_vars /\ WF_vars(ClientCall)

\* C21 (eventual translation): with every activation succeeding and one key
\* of the pool returning a translation whenever it is called, the call of
\* translate_text eventually returns with succeeded = true.
C21_EventualTranslation == <>(tt.ret = "ok")

\* C22 (round-robin rotation): a call of get_next_api_key_and_setup made by
\* translate_text tries first the key that follows, in the configured order
\* and cyclically, the key the previous call activated; when that activation
\* succeeds, it becomes the active key and the next call will start at its
\* successor.  So N consecutive calls whose activations succeed activate the
\* N keys once each, in order, and none restarts at the first key.
C22_RoundRobin ==
    [][(pc = "remote" /\ tt'.calls = tt.calls + 1 /\ tt'.rot.invoked) =>
         /\ tt'.rot.tried[1] = (current_model % nkeys) + 1
         /\ tt'.rot.tried[1] = iterPos
         /\ (tt'.rot.ok /\ Len(tt'.rot.tried) = 1) =>
               /\ current_model' = (current_model % nkeys) + 1
               /\ iterPos' = (current_model' % nkeys) + 1
      ]_vars

\* in a pool of two keys the rotation after the second call of a segment, a
\* call on key 2, succeeded at its first activation and went round to key 1
C22_Witness ==
    /\ pc = "remote" /\ nkeys = 2 /\ tt.calls = 2
    /\ tt.rot.invoked /\ tt.rot.ok /\ Len(tt.rot.tried) = 1
    /\ tt.lastKey = 2 /\ current_model = 1 /\ iterPos = 2

\* C23 (cleanup only after output exists): when a run has ended with the
\* workspace deleted, that run wrote the output EPUB.
C23_CleanupOnlyAfterOutput == (pc = "idle" /\ cleaned) => epubWritten

====
